---------------------------- MODULE Spec2Model ----------------------------
(***************************************************************************)
(* Model of the Noema OpenClaw extension: the output decoder (decode.ts),  *)
(* the HTTP client (client.ts) and the proxy ledger the client talks to.   *)
(* Text is a sequence of Unicode code points; bytes are 0..255; time is    *)
(* counted in eighths of a millisecond so that the backoff stays integral. *)
(***************************************************************************)
EXTENDS Integers, Sequences, FiniteSets, TLC

(***************************************************************************)
(* Bounds of the model.                                                    *)
(***************************************************************************)
MaxStrLen == 2
MaxPayLen == 4
MaxParts == 3

(***************************************************************************)
(* State.  Decoder: the string handed to the Field Encoder (dSrc), the     *)
(* text handed to decodeNoema (dText), its result (dOut) and the phase;    *)
(* the parts a text was put together from (dParts), the last result of     *)
(* hasNoemaTokens (dHas), NOEMA_TOKEN_REGEX.lastIndex (lastIndex), and     *)
(* whether the last call found lastIndex away from 0 (dStale).             *)
(* Client and proxy: the clock, the plugin configuration, the NoemaClient  *)
(* fields, the request() calls in progress (rq), the providers' respond()  *)
(* calls (pv), the proxy's ledger, and the number of proxy or transport     *)
(* faults so far.  Each call in progress keeps the last network call it    *)
(* made (its field call).                                                  *)
(***************************************************************************)
VARIABLES dPc, dSrc, dText, dOut, dParts, dHas, lastIndex, dStale,
          now, config, client, rq, pv, ledger, faults,
          pluginConfig, clients, tools, registered, exec, msg

dvars == <<dPc, dSrc, dText, dOut, dParts, dHas, lastIndex, dStale>>

cvars == <<now, config, client, rq, pv, ledger, faults>>

hvars == <<pluginConfig, clients, tools, registered, exec, msg>>

vars == <<dvars, cvars, hvars>>

(***************************************************************************)
(* Generic helpers.                                                        *)
(***************************************************************************)
SeqsUpTo(S, n) == UNION {[1..k -> S] : k \in 0..n}

Min(a, b) == IF a <= b THEN a ELSE b

RECURSIVE Flatten(_)
Flatten(ss) == IF ss = <<>> THEN <<>> ELSE Head(ss) \o Flatten(Tail(ss))

(***************************************************************************)
(* Characters (code points) of the token syntax.                           *)
(***************************************************************************)
SectionSign == 167
TokenOpen == <<167, 98, 54, 52, 58>>
TokenClose == <<167>>
PadChar == 61
ReplacementChar == 65533

(* the character class [A-Za-z0-9+/=] of NOEMA_TOKEN_REGEX *)
IsPayloadChar(c) ==
    \/ c \in 65..90
    \/ c \in 97..122
    \/ c \in 48..57
    \/ c = 43
    \/ c = 47
    \/ c = 61

(***************************************************************************)
(* UTF-8.                                                                  *)
(***************************************************************************)
Utf8EncodeChar(cp) ==
    IF cp < 128 THEN <<cp>>
    ELSE IF cp < 2048 THEN <<192 + (cp \div 64), 128 + (cp % 64)>>
    ELSE IF cp < 65536 THEN
        <<224 + (cp \div 4096), 128 + ((cp \div 64) % 64), 128 + (cp % 64)>>
    ELSE <<240 + (cp \div 262144), 128 + ((cp \div 4096) % 64),
           128 + ((cp \div 64) % 64), 128 + (cp % 64)>>

Utf8Encode(s) == Flatten([i \in 1..Len(s) |-> Utf8EncodeChar(s[i])])

IsCont(b) == b \in 128..191

(* bounds of the first continuation byte after lead byte b *)
SecondLo(b) == IF b = 224 THEN 160 ELSE IF b = 240 THEN 144 ELSE 128
SecondHi(b) == IF b = 237 THEN 159 ELSE IF b = 244 THEN 143 ELSE 191

(* number of continuation bytes lead byte b asks for; 0 for ASCII, -1 for  *)
(* a byte that cannot start a sequence                                     *)
Utf8Need(b) ==
    IF b < 128 THEN 0
    ELSE IF b \in 194..223 THEN 1
    ELSE IF b \in 224..239 THEN 2
    ELSE IF b \in 240..244 THEN 3
    ELSE -1

(* Buffer.prototype.toString("utf-8"): every maximal ill-formed subpart    *)
(* becomes U+FFFD, decoding resumes at the offending byte                  *)
RECURSIVE Utf8Decode(_)
Utf8Decode(bs) ==
    IF bs = <<>> THEN <<>>
    ELSE
        LET b == bs[1]
            need == Utf8Need(b)
            n == Len(bs)
            ok2 == n >= 2 /\ bs[2] >= SecondLo(b) /\ bs[2] <= SecondHi(b)
            ok3 == n >= 3 /\ IsCont(bs[3])
            ok4 == n >= 4 /\ IsCont(bs[4])
            rest(k) == SubSeq(bs, k + 1, n)
        IN  IF need = 0 THEN <<b>> \o Utf8Decode(rest(1))
            ELSE IF need = -1 THEN <<ReplacementChar>> \o Utf8Decode(rest(1))
            ELSE IF ~ok2 THEN <<ReplacementChar>> \o Utf8Decode(rest(1))
            ELSE IF need = 1 THEN
                <<(b - 192) * 64 + (bs[2] - 128)>> \o Utf8Decode(rest(2))
            ELSE IF ~ok3 THEN <<ReplacementChar>> \o Utf8Decode(rest(2))
            ELSE IF need = 2 THEN
                <<(b - 224) * 4096 + (bs[2] - 128) * 64 + (bs[3] - 128)>>
                    \o Utf8Decode(rest(3))
            ELSE IF ~ok4 THEN <<ReplacementChar>> \o Utf8Decode(rest(3))
            ELSE <<(b - 240) * 262144 + (bs[2] - 128) * 4096
                    + (bs[3] - 128) * 64 + (bs[4] - 128)>>
                    \o Utf8Decode(rest(4))

(***************************************************************************)
(* Base64.                                                                 *)
(***************************************************************************)
B64Char(v) ==
    IF v < 26 THEN 65 + v
    ELSE IF v < 52 THEN 97 + (v - 26)
    ELSE IF v < 62 THEN 48 + (v - 52)
    ELSE IF v = 62 THEN 43
    ELSE 47

B64Value(c) ==
    IF c \in 65..90 THEN c - 65
    ELSE IF c \in 97..122 THEN c - 97 + 26
    ELSE IF c \in 48..57 THEN c - 48 + 52
    ELSE IF c = 43 THEN 62
    ELSE 63

(* standard base64 with padding, as the Field Encoder produces it *)
RECURSIVE B64Encode(_)
B64Encode(bs) ==
    IF bs = <<>> THEN <<>>
    ELSE IF Len(bs) = 1 THEN
        <<B64Char(bs[1] \div 4), B64Char((bs[1] % 4) * 16), PadChar, PadChar>>
    ELSE IF Len(bs) = 2 THEN
        <<B64Char(bs[1] \div 4),
          B64Char((bs[1] % 4) * 16 + (bs[2] \div 16)),
          B64Char((bs[2] % 16) * 4), PadChar>>
    ELSE
        <<B64Char(bs[1] \div 4),
          B64Char((bs[1] % 4) * 16 + (bs[2] \div 16)),
          B64Char((bs[2] % 16) * 4 + (bs[3] \div 64)),
          B64Char(bs[3] % 64)>> \o B64Encode(SubSeq(bs, 4, Len(bs)))

(* the prefix of a payload before its first '=' *)
RECURSIVE UpToPad(_)
UpToPad(p) ==
    IF p = <<>> \/ p[1] = PadChar THEN <<>>
    ELSE <<p[1]>> \o UpToPad(Tail(p))

(* groups of four sextets give three bytes; a tail of two gives one byte,  *)
(* of three gives two, a single left-over character gives none             *)
RECURSIVE B64DecodeSextets(_)
B64DecodeSextets(p) ==
    LET v(i) == B64Value(p[i])
    IN  IF Len(p) < 2 THEN <<>>
        ELSE IF Len(p) = 2 THEN <<v(1) * 4 + (v(2) \div 16)>>
        ELSE IF Len(p) = 3 THEN
            <<v(1) * 4 + (v(2) \div 16), (v(2) % 16) * 16 + (v(3) \div 4)>>
        ELSE
            <<v(1) * 4 + (v(2) \div 16), (v(2) % 16) * 16 + (v(3) \div 4),
              (v(3) % 4) * 64 + v(4)>>
                \o B64DecodeSextets(SubSeq(p, 5, Len(p)))

(* Buffer.from(encoded, "base64") on a payload of the token's character    *)
(* class: decoding is lenient, stops at the first '=' and never fails      *)
BufferFromBase64(p) == B64DecodeSextets(UpToPad(p))

(* a payload is a base64 encoding when it is the encoding of some bytes *)
ValidBase64(p) == B64Encode(BufferFromBase64(p)) = p

(***************************************************************************)
(* Field Encoder (proxy side): the token of an unstructured string.        *)
(***************************************************************************)
EncodeAsToken(s) == TokenOpen \o B64Encode(Utf8Encode(s)) \o TokenClose

Token(payload) == TokenOpen \o payload \o TokenClose

(***************************************************************************)
(* decode.ts                                                               *)
(***************************************************************************)
(* length of the run of payload characters of text that starts at i *)
RECURSIVE PayloadRun(_, _)
PayloadRun(text, i) ==
    IF i <= Len(text) /\ IsPayloadChar(text[i])
    THEN 1 + PayloadRun(text, i + 1)
    ELSE 0

(* a regex whose payload may be empty and may hold any character but the   *)
(* section sign                                                            *)
RECURSIVE RunToClose(_, _)
RunToClose(text, i) ==
    IF i <= Len(text) /\ text[i] # SectionSign
    THEN 1 + RunToClose(text, i + 1)
    ELSE 0

MatchAtAnyPayload(text, i) ==
    IF i + 4 <= Len(text) /\ SubSeq(text, i, i + 4) = TokenOpen
    THEN LET r == RunToClose(text, i + 5)
         IN  IF i + 5 + r <= Len(text) THEN 6 + r ELSE 0
    ELSE 0

(* NOEMA_TOKEN_REGEX matched at position i: the length of the match, or 0  *)
MatchAt(text, i) ==
    IF i + 4 <= Len(text) /\ SubSeq(text, i, i + 4) = TokenOpen
    THEN LET r == PayloadRun(text, i + 5)
         IN  IF r >= 1 /\ i + 5 + r <= Len(text) /\ text[i + 5 + r] = SectionSign
             THEN 6 + r ELSE 0
    ELSE 0

(* the replacement callback of decodeNoema; the catch branch is never taken *)
DecodeToken(encoded) == Utf8Decode(BufferFromBase64(encoded))

RECURSIVE ReplaceFrom(_, _)
ReplaceFrom(text, i) ==
    IF i > Len(text) THEN <<>>
    ELSE LET m == MatchAt(text, i)
         IN  IF m > 0
             THEN DecodeToken(SubSeq(text, i + 5, i + m - 2))
                    \o ReplaceFrom(text, i + m)
             ELSE <<text[i]>> \o ReplaceFrom(text, i + 1)

decodeNoema(text) == ReplaceFrom(text, 1)

RECURSIVE SearchFrom(_, _)
SearchFrom(text, i) ==
    IF i > Len(text) THEN FALSE
    ELSE IF MatchAt(text, i) > 0 THEN TRUE
    ELSE SearchFrom(text, i + 1)

hasNoemaTokens(text) == SearchFrom(text, 1)

(***************************************************************************)
(* NOEMA_TOKEN_REGEX is one global regex object shared by both functions:  *)
(* its lastIndex (an offset, 0 for the start of the text) outlives a call. *)
(***************************************************************************)
RECURSIVE FirstMatchFrom(_, _)
FirstMatchFrom(text, i) ==
    IF i > Len(text) THEN 0
    ELSE IF MatchAt(text, i) > 0 THEN i
    ELSE FirstMatchFrom(text, i + 1)

(* RegExp.prototype.exec: the search starts at lastIndex; a match leaves   *)
(* lastIndex at its end, a failure leaves 0.  index is the position of the *)
(* match, 0 for none                                                       *)
RegExpExec(text, li) ==
    LET i == FirstMatchFrom(text, li + 1)
    IN  IF i = 0 THEN [index |-> 0, lastIndex |-> 0]
        ELSE [index |-> i, lastIndex |-> i - 1 + MatchAt(text, i)]

(* RegExp.prototype.test *)
RegExpTest(text, li) ==
    LET r == RegExpExec(text, li)
    IN  [result |-> r.index > 0, lastIndex |-> r.lastIndex]

(* a test that starts where the regex was left *)
hasNoemaTokensNoReset(text, li) == RegExpTest(text, li)

(* hasNoemaTokens as a call: lastIndex is reset, then the regex is tested *)
hasNoemaTokensCall(text, li) == RegExpTest(text, 0)

(* a replace that does not consume the closing delimiter of a match *)
RECURSIVE ReplaceLoopOverlapping(_, _, _)
ReplaceLoopOverlapping(text, li, pos) ==
    LET r == RegExpExec(text, li)
    IN  IF r.index = 0
        THEN [result |-> SubSeq(text, pos, Len(text)), lastIndex |-> 0]
        ELSE LET rest == ReplaceLoopOverlapping(text, r.lastIndex - 1, r.lastIndex)
             IN  [result |-> SubSeq(text, pos, r.index - 1)
                               \o DecodeToken(SubSeq(text, r.index + 5,
                                                      r.lastIndex - 1))
                               \o rest.result,
                  lastIndex |-> rest.lastIndex]

(* a replace that stops after the first match *)
ReplaceLoopFirstOnly(text, li, pos) ==
    LET r == RegExpExec(text, li)
    IN  IF r.index = 0
        THEN [result |-> SubSeq(text, pos, Len(text)), lastIndex |-> 0]
        ELSE [result |-> SubSeq(text, pos, r.index - 1)
                           \o DecodeToken(SubSeq(text, r.index + 5,
                                                  r.lastIndex - 1))
                           \o SubSeq(text, r.lastIndex + 1, Len(text)),
              lastIndex |-> 0]

(* String.prototype.replace with a global regex, from lastIndex li and     *)
(* source position pos: exec is repeated until it fails; what lies between *)
(* the matches is copied, each match is replaced by the callback's result  *)
RECURSIVE ReplaceLoop(_, _, _)
ReplaceLoop(text, li, pos) ==
    LET r == RegExpExec(text, li)
    IN  IF r.index = 0
        THEN [result |-> SubSeq(text, pos, Len(text)), lastIndex |-> 0]
        ELSE LET rest == ReplaceLoop(text, r.lastIndex, r.lastIndex + 1)
             IN  [result |-> SubSeq(text, pos, r.index - 1)
                               \o DecodeToken(SubSeq(text, r.index + 5,
                                                      r.lastIndex - 1))
                               \o rest.result,
                  lastIndex |-> rest.lastIndex]

(* the matches replace visits: first and last position of each *)
RECURSIVE MatchesFrom(_, _)
MatchesFrom(text, li) ==
    LET r == RegExpExec(text, li)
    IN  IF r.index = 0 THEN {}
        ELSE {[first |-> r.index, last |-> r.lastIndex]}
                \cup MatchesFrom(text, r.lastIndex)

(* a replace that starts where the regex was left *)
decodeNoemaFromLastIndex(text, li) == ReplaceLoop(text, li, 1)

(* decodeNoema as a call: replace sets lastIndex to 0 before it starts *)
decodeNoemaCall(text, li) == ReplaceLoop(text, 0, 1)

(***************************************************************************)
(* Texts put together from parts: plain characters, tokens of a string,    *)
(* delimited substrings that are no tokens, and the two halves of a token. *)
(***************************************************************************)
Plain(s) == [kind |-> "plain", val |-> s]
TokenOf(s) == [kind |-> "token", val |-> s]
Malformed(t) == [kind |-> "malformed", val |-> t]

(* "A", the section sign; the tokens of "A" and of the token of "A";       *)
(* "§b64:Q!§" and "§b64:§"; "§b64:QQ==" and "b64:QQ==§"                    *)
Parts ==
    { Plain(<<65>>), Plain(<<SectionSign>>),
      TokenOf(<<65>>), TokenOf(EncodeAsToken(<<65>>)),
      Malformed(Token(<<81, 33>>)), Malformed(Token(<<>>)),
      [kind |-> "head", val |-> TokenOpen \o <<81, 81, 61, 61>>],
      [kind |-> "tail", val |-> <<98, 54, 52, 58, 81, 81, 61, 61>> \o TokenClose] }

TextOfPart(p) == IF p.kind = "token" THEN EncodeAsToken(p.val) ELSE p.val

TextOf(parts) == Flatten([i \in 1..Len(parts) |-> TextOfPart(parts[i])])

(* what a text of plain parts and tokens stands for *)
Decoded(parts) == Flatten([i \in 1..Len(parts) |-> parts[i].val])


(***************************************************************************)
(* The decoder as a state machine: a string is encoded by the Field        *)
(* Encoder, or a raw token text arrives, and decodeNoema is applied.       *)
(***************************************************************************)
(* 'A', the section sign, the euro sign, the waving hand *)
SrcChars == {65, 167, 8364, 128075}
SrcStrings == SeqsUpTo(SrcChars, MaxStrLen)

(* 'Q', 'g', '=' *)
PayChars == {81, 103, 61}
Payloads == SeqsUpTo(PayChars, MaxPayLen) \ {<<>>}

PayloadOf(text) == SubSeq(text, Len(TokenOpen) + 1, Len(text) - 1)

DecodeInit ==
    /\ dPc = "start"
    /\ dSrc \in SrcStrings
    /\ dText = <<>>
    /\ dOut = <<>>
    /\ dParts = <<>>
    /\ dHas = FALSE
    /\ lastIndex = 0
    /\ dStale = FALSE

FieldEncode ==
    /\ dPc = "start"
    /\ dText' = EncodeAsToken(dSrc)
    /\ dPc' = "encoded"
    /\ UNCHANGED <<dSrc, dOut, dParts, dHas, lastIndex, dStale, cvars, hvars>>

RawToken ==
    /\ dPc = "start"
    /\ \E p \in Payloads : dText' = Token(p)
    /\ dPc' = "raw"
    /\ UNCHANGED <<dSrc, dOut, dParts, dHas, lastIndex, dStale, cvars, hvars>>

Decode ==
    /\ dPc \in {"encoded", "raw"}
    /\ dOut' = decodeNoema(dText)
    /\ dPc' = IF dPc = "encoded" THEN "decodedEncoded" ELSE "decodedRaw"
    /\ lastIndex' = 0
    /\ dStale' = (lastIndex # 0)
    /\ UNCHANGED <<dSrc, dText, dParts, dHas, cvars, hvars>>

(***************************************************************************)
(* client.ts: NoemaClient, and the proxy it talks to.                      *)
(* URLs and identifiers are sequences of one-character strings.            *)
(***************************************************************************)
InitialPollIntervalMs == 500
MaxPollIntervalMs == 5000

(* bounds *)
MaxFaults == 1
MaxResponds == 1

Requesters == {"r1", "r2"}
Providers == {"p1", "p2"}

(* one millisecond is eight ticks of the model clock *)
Ticks(ms) == ms * 8

(* timeout_ms values an agent passes to noema_request, in milliseconds:    *)
(* none, less than the first poll interval, and one long enough for the    *)
(* poll interval to reach its cap                                          *)
ShortTimeouts == {0, 100}
LongTimeouts == {0, 100, 12000}

(* proxyUrl values of openclaw.yaml *)
ProxyUrls == {<<"h">>, <<"h", "/", "p", "/", "/">>}

(* subscriptions of openclaw.yaml: the agent ids a provider subscribes to; *)
(* the first provider has none configured, the second subscribes to the    *)
(* second requester                                                        *)
NoSubscriptions == [configured |-> FALSE, ids |-> {}]
SubscribedTo(ids) == [configured |-> TRUE, ids |-> ids]
ConfiguredSubscriptions(p) ==
    IF p = "p2" THEN SubscribedTo({"r2"}) ELSE NoSubscriptions

Digit36 == <<"0", "1", "2", "3", "4", "5", "6", "7", "8", "9", "a", "b",
             "c", "d", "e", "f", "g", "h", "i", "j", "k", "l", "m", "n",
             "o", "p", "q", "r", "s", "t", "u", "v", "w", "x", "y", "z">>

(* Number.prototype.toString(36) of a non-negative integer *)
RECURSIVE ToString36(_)
ToString36(n) ==
    IF n < 36 THEN <<Digit36[n + 1]>>
    ELSE ToString36(n \div 36) \o <<Digit36[(n % 36) + 1]>>

(* Math.random().toString(36).substring(2, 8): what a draw can give *)
RandomPart == <<"k", "3", "x", "9", "q", "z">>
RandomParts == {RandomPart, <<"i">>}

generateRequestId(timestampMs, random) ==
    <<"r", "e", "q", "-">> \o ToString36(timestampMs) \o <<"-">> \o random

(* a request_id an agent passes to noema_respond that no request has *)
BogusIds == {<<"/", "/", "e", "v", "i", "l">>}

RECURSIVE StripTrailingSlashes(_)
StripTrailingSlashes(url) ==
    IF url # <<>> /\ url[Len(url)] = "/"
    THEN StripTrailingSlashes(SubSeq(url, 1, Len(url) - 1))
    ELSE url

IsPrefix(p, t) == Len(p) <= Len(t) /\ SubSeq(t, 1, Len(p)) = p

(* for outputs: one field of the response object *)
OutStr(s) == [kind |-> "string", val |-> s]
OutNum == [kind |-> "number", val |-> <<>>]
NoOutput == [kind |-> "none", val |-> <<>>]

(* the outputs the providers answer with: "Hi" or a number where the       *)
(* schema wants a string, and "Yo"                                         *)
ProviderOutputs(p) ==
    IF p = "p1" THEN {OutStr(<<72, 105>>), OutNum} ELSE {OutStr(<<89, 111>>)}

(* the schema of the one field: a string, flagged unstructured or not *)
Structured == [type |-> "string", unstructured |-> FALSE]
Unstructured == [type |-> "string", unstructured |-> TRUE]
Schemas == {Structured, Unstructured}
NoSchema == [type |-> "none", unstructured |-> FALSE]

(* HTTP responses: ok is status in 200..299; body is the parsed JSON *)
(* error_details is an object that may carry a message *)
NoDetails == [present |-> FALSE, message |-> "none"]
Details(message) == [present |-> TRUE, message |-> message]

NoBody ==
    [status |-> "none", output |-> NoOutput, error_code |-> "none",
     error_details |-> NoDetails, message |-> "none", error |-> "none"]

Response(status, json, body) ==
    [ok |-> status \in 200..299, status |-> status, json |-> json, body |-> body]

NoResponse == Response(0, FALSE, NoBody)

AckResponse == Response(200, TRUE, NoBody)

ResultSuccess(output) ==
    Response(200, TRUE, [NoBody EXCEPT !.status = "success", !.output = output])

ResultError(code) ==
    Response(200, TRUE, [NoBody EXCEPT !.status = "error", !.error_code = code,
                                       !.error_details = Details(code)])

NotFoundResponse ==
    Response(404, TRUE, [NoBody EXCEPT !.error_code = "REQUEST_NOT_FOUND",
                                       !.message = "not found"])

NotFoundCodeOnly ==
    Response(404, TRUE, [NoBody EXCEPT !.error_code = "REQUEST_NOT_FOUND"])

(* envelope and transport errors: with a code, without one, not JSON *)
ErrorResponses ==
    { Response(401, TRUE, [NoBody EXCEPT !.error_code = "UNAUTHORIZED",
                                         !.error_details = Details("bad token")]),
      Response(400, TRUE, [NoBody EXCEPT !.message = "malformed"]),
      Response(502, FALSE, NoBody) }

HttpMessage(status) ==
    CASE status = 400 -> "HTTP 400"
      [] status = 401 -> "HTTP 401"
      [] status = 404 -> "HTTP 404"
      [] status = 502 -> "HTTP 502"
      [] OTHER -> "HTTP error"

parseError(response) ==
    IF response.json
    THEN LET data == response.body
         IN  [code |-> IF data.error_code # "none" THEN data.error_code
                       ELSE "INTERNAL_ERROR",
              details |-> IF data.error_details.present THEN data.error_details
                          ELSE IF data.message # "none" THEN Details(data.message)
                          ELSE IF data.error # "none" THEN Details(data.error)
                          ELSE Details("Unknown error")]
    ELSE [code |-> "INTERNAL_ERROR",
          details |-> Details(HttpMessage(response.status))]

(* a fetch that lets the path alone decide the destination *)
FetchUrlPathOnly(path) == path

(* NoemaClient.fetch: the URL is the stored proxyUrl followed by the path *)
FetchUrl(path) == client.proxyUrl \o path

NoPayload ==
    [type |-> "none", request_id |-> <<>>, schema |-> NoSchema,
     timeout_ms |-> 0, output |-> NoOutput]

(* the request fetch() hands to the network: method and URL; the body     *)
(* takes no part in the URL                                                *)
FetchCall(path, body, method) == [method |-> method, url |-> FetchUrl(path)]

NoCall == [method |-> "none", url |-> <<>>]

(* a result path that does not name the request *)
ResultPathOfNone(requestId) == <<"/", "r", "e", "s", "u", "l", "t", "/">>

ResultPath(requestId) == <<"/", "r", "e", "s", "u", "l", "t", "/">> \o requestId
RequestPath == <<"/", "r", "e", "q", "u", "e", "s", "t">>
ResponsePath == <<"/", "r", "e", "s", "p", "o", "n", "s", "e">>
PollPath == <<"/", "p", "o", "l", "l">>

(* Date.now(): the clock in whole milliseconds *)
DateNow == now \div 8

NoResult ==
    [success |-> FALSE, request_id |-> <<>>, output |-> NoOutput,
     error_code |-> "none", error_details |-> NoDetails]

Failure(requestId, code, details) ==
    [NoResult EXCEPT !.request_id = requestId, !.error_code = code,
                     !.error_details = details]

Success(requestId, output) ==
    [NoResult EXCEPT !.success = TRUE, !.request_id = requestId,
                     !.output = output]

(* a request() call: where it stands, its locals, the last fetch it made,  *)
(* the answer to its POST (post), the last answer to a result fetch (resp) *)
(* and what it returned                                                    *)
IdleRequester ==
    [pc |-> "idle", requestId |-> <<>>, timeoutMs |-> 0, startTime |-> 0,
     pollInterval |-> 0, wakeAt |-> 0, call |-> NoCall, post |-> NoResponse,
     resp |-> NoResponse, result |-> NoResult]

(* request() returns: its locals are gone, the result and the last answer  *)
(* it was made from stay                                                   *)
Return(r, result) ==
    [IdleRequester EXCEPT !.pc = "done", !.requestId = r.requestId,
                          !.timeoutMs = r.timeoutMs, !.call = r.call,
                          !.post = r.post, !.resp = r.resp,
                          !.result = result]

(* a request() that starts polling whatever the answer to the POST was *)
requestPostedIgnoringStatus(r, requestId, timeoutMs, postResponse) ==
    [r EXCEPT !.requestId = requestId, !.timeoutMs = timeoutMs,
              !.post = postResponse, !.pc = "loop", !.startTime = now,
              !.pollInterval = Ticks(InitialPollIntervalMs)]

(* lines 587-600 of request(): after the POST *)
requestPosted(r, requestId, timeoutMs, postResponse) ==
    LET r1 == [r EXCEPT !.requestId = requestId, !.timeoutMs = timeoutMs,
                        !.post = postResponse]
    IN  IF ~postResponse.ok
        THEN LET error == parseError(postResponse)
             IN  Return(r1, Failure(requestId, error.code, error.details))
        ELSE [r1 EXCEPT !.pc = "loop", !.startTime = now,
                        !.pollInterval = Ticks(InitialPollIntervalMs)]

(* a loop that reports the elapsed timeout as an internal error *)
loopCheckInternalError(r) ==
    IF now - r.startTime < Ticks(r.timeoutMs)
    THEN [r EXCEPT !.pc = "sleeping", !.wakeAt = now + r.pollInterval]
    ELSE Return(r, Failure(r.requestId, "INTERNAL_ERROR",
                           Details("Request timed out")))

(* the loop condition, then the sleep or the timeout result *)
loopCheck(r) ==
    IF now - r.startTime < Ticks(r.timeoutMs)
    THEN [r EXCEPT !.pc = "sleeping", !.wakeAt = now + r.pollInterval]
    ELSE Return(r, Failure(r.requestId, "TIMEOUT",
                           Details("Request timed out")))

(* a backoff without the cap *)
NextPollIntervalUncapped(pollInterval) == (pollInterval * 3) \div 2

(* Math.min(pollInterval * 1.5, maxPollInterval), in ticks *)
NextPollInterval(pollInterval) ==
    IF pollInterval * 3 >= Ticks(MaxPollIntervalMs) * 2
    THEN Ticks(MaxPollIntervalMs)
    ELSE (pollInterval * 3) \div 2

(* a result that is reported as a success whatever its status *)
resultOfAlwaysSuccess(requestId, result) == Success(requestId, result.output)

(* what request() makes of the answer to a result fetch *)
resultOf(requestId, result) ==
    IF result.status = "success"
    THEN Success(requestId, result.output)
    ELSE Failure(requestId, result.error_code, result.error_details)

(* a fetch that takes a 404 for an error like any other *)
resultFetchedNotFoundFatal(r, resultResponse) ==
    LET r1 == [r EXCEPT !.resp = resultResponse]
    IN  IF resultResponse.ok
        THEN Return(r1, resultOf(r.requestId, resultResponse.body))
        ELSE LET error == parseError(resultResponse)
             IN  Return(r1, Failure(r.requestId, error.code, error.details))

resultFetched(r, resultResponse) ==
    LET r1 == [r EXCEPT !.resp = resultResponse]
    IN  IF resultResponse.ok
        THEN Return(r1, resultOf(r.requestId, resultResponse.body))
        ELSE IF resultResponse.status = 404
        THEN [r1 EXCEPT !.pc = "loop",
                        !.pollInterval = NextPollInterval(r.pollInterval)]
        ELSE LET error == parseError(resultResponse)
             IN  Return(r1, Failure(r.requestId, error.code, error.details))

(* what respond() returns *)
NoRespondResult == [success |-> FALSE, error |-> "none"]

(* a respond() that reports success whatever the proxy answered *)
respondedAlwaysSuccess(response) == [success |-> TRUE, error |-> "none"]

responded(response) ==
    IF ~response.ok
    THEN LET error == parseError(response)
         IN  [success |-> FALSE,
              error |-> IF error.details.message # "none"
                        THEN error.details.message
                        ELSE HttpMessage(response.status)]
    ELSE [success |-> TRUE, error |-> "none"]

(* what poll() returns: the requests of the poll response *)
NoPollResult == [success |-> FALSE, requests |-> {}, error |-> "none"]

polled(response, requests) ==
    IF ~response.ok
    THEN LET error == parseError(response)
         IN  [success |-> FALSE, requests |-> {},
              error |-> IF error.details.message # "none"
                        THEN error.details.message
                        ELSE HttpMessage(response.status)]
    ELSE [success |-> TRUE, requests |-> requests, error |-> "none"]

(* a provider: the number of respond() calls made, the last poll() result, *)
(* the last respond() call, the proxy's answer to it and its result        *)
IdleProvider ==
    [n |-> 0, polled |-> NoPollResult, requestId |-> <<>>,
     output |-> NoOutput, call |-> NoCall, resp |-> NoResponse,
     result |-> NoRespondResult]

(***************************************************************************)
(* The proxy's Request Ledger.                                             *)
(***************************************************************************)
LedgerIds == {e.rid : e \in ledger}

EntryOf(L, rid) == CHOOSE e \in L : e.rid = rid

(* a read that never checks the deadline *)
TouchNoExpiry(L, rid) == L

(* lazy expiry: checked when the request is read *)
Touch(L, rid) ==
    {IF e.rid = rid /\ e.status = "pending" /\ now >= e.deadline
     THEN [e EXCEPT !.status = "expired", !.error_code = "TIMEOUT"]
     ELSE e : e \in L}

(* a request, and with it its response once there is one: the output      *)
(* submitted and the encoded output                                        *)
LedgerCreate(rid, from, schema, timeoutMs) ==
    ledger \cup {[rid |-> rid, from |-> from, schema |-> schema,
                  deadline |-> now + Ticks(timeoutMs), status |-> "pending",
                  submitted |-> NoOutput, output |-> NoOutput,
                  error_code |-> "none"]}

(* listPendingFor: the pending requests whose deadline has not passed *)
ListPending ==
    {[request_id |-> e.rid, from |-> e.from] :
        e \in {f \in ledger : f.status = "pending" /\ now < f.deadline}}

Validate(schema, output) == output.kind = schema.type

FieldEncoder(schema, output) ==
    IF schema.unstructured THEN OutStr(EncodeAsToken(output.val)) ELSE output

Accepts(L, rid) == rid \in {e.rid : e \in L} /\ EntryOf(L, rid).status = "pending"

(* a submitResponse that takes a response whatever the status is *)
SubmitLedgerAnyStatus(rid, output) ==
    {IF e.rid # rid THEN e
     ELSE IF Validate(e.schema, output)
     THEN [e EXCEPT !.status = "fulfilled", !.submitted = output,
                    !.output = FieldEncoder(e.schema, output),
                    !.error_code = "none"]
     ELSE [e EXCEPT !.status = "failed", !.submitted = output,
                    !.output = NoOutput,
                    !.error_code = "VALIDATION_FAILED"] : e \in ledger}

(* submitResponse: one atomic transition of a pending request *)
SubmitLedger(rid, output) ==
    LET L == Touch(ledger, rid)
    IN  IF Accepts(L, rid)
        THEN {IF e.rid # rid THEN e
              ELSE IF Validate(e.schema, output)
              THEN [e EXCEPT !.status = "fulfilled", !.submitted = output,
                             !.output = FieldEncoder(e.schema, output)]
              ELSE [e EXCEPT !.status = "failed", !.submitted = output,
                             !.error_code = "VALIDATION_FAILED"] : e \in L}
        ELSE L

(* the answers to POST /response: an acknowledgement, or a rejection whose *)
(* body names the error code with or without a message                     *)
SubmitAnswers(rid) ==
    IF Accepts(Touch(ledger, rid), rid) THEN {AckResponse}
    ELSE {NotFoundResponse, NotFoundCodeOnly}

(* getResult, as the answer to GET /result/<id> *)
ResultAnswer(rid) ==
    LET L == Touch(ledger, rid)
    IN  IF rid \notin {e.rid : e \in L} THEN NotFoundResponse
        ELSE LET e == EntryOf(L, rid)
             IN  IF e.status = "pending" THEN NotFoundResponse
                 ELSE IF e.status = "fulfilled" THEN ResultSuccess(e.output)
                 ELSE ResultError(e.error_code)

(***************************************************************************)
(* The plugin: what the host hands to register() and to the tools.         *)
(***************************************************************************)
(* a property of a JavaScript object: present with a value, or undefined *)
Some(v) == [defined |-> TRUE, val |-> v]
NoString == [defined |-> FALSE, val |-> <<>>]
NoRole == [defined |-> FALSE, val |-> ""]
NoNumber == [defined |-> FALSE, val |-> 0]

(* api.pluginConfig: undefined, or an object with any of the four options *)
NoPluginConfig ==
    [present |-> FALSE, proxyUrl |-> NoString, token |-> NoString,
     role |-> NoRole, subscriptions |-> NoSubscriptions]

(* a tool object: its name, and the client and the role its execute()      *)
(* closes over; the client is named by its place in clients                *)
Tool(name, role, clientId) == [name |-> name, role |-> role, client |-> clientId]
NoTool == Tool("none", "none", 0)

(* the params of a tool call *)
NoParams == [request_id |-> NoString, timeout_ms |-> NoNumber]

(* the JSON text a tool returns, by its properties *)
NoToolResult ==
    [error |-> "none", configured_role |-> "none", success |-> "none",
     request_id |-> <<>>, output |-> NoOutput, error_code |-> "none",
     error_details |-> NoDetails, pending_count |-> 0, requests |-> {},
     message |-> "none"]

(* an execute() call: where it stands, the tool, the params and the        *)
(* output among them, what it returned; exec has the last call of each     *)
(* agent                                                                   *)
NoExec == [pc |-> "idle", tool |-> NoTool, params |-> NoParams,
           output |-> NoOutput, result |-> NoToolResult]

(* the last message_sending event: the kind of its content, whether the    *)
(* handler returned an object, and whether that object cancels the message *)
NoMsg == [kind |-> "none", returned |-> FALSE, cancel |-> FALSE]

PluginOff ==
    /\ pluginConfig = NoPluginConfig
    /\ clients = <<>>
    /\ tools = {}
    /\ registered = <<>>
    /\ exec = [c \in Requesters \cup Providers |-> NoExec]
    /\ msg = NoMsg

(***************************************************************************)
(* Actions of the client and the proxy.                                    *)
(***************************************************************************)
NewNoemaClient(cfg) == [proxyUrl |-> StripTrailingSlashes(cfg.proxyUrl)]

DecoderOff ==
    /\ dPc = "off"
    /\ dSrc = <<>>
    /\ dText = <<>>
    /\ dOut = <<>>
    /\ dParts = <<>>
    /\ dHas = FALSE
    /\ lastIndex = 0
    /\ dStale = FALSE

ClientInit ==
    /\ now = 0
    /\ config \in [proxyUrl : ProxyUrls,
                   subscriptions : {[p \in Providers |->
                                        ConfiguredSubscriptions(p)]}]
    /\ client = NewNoemaClient(config)
    /\ rq = [c \in Requesters |-> IdleRequester]
    /\ pv = [p \in Providers |-> IdleProvider]
    /\ ledger = {}
    /\ faults = 0

Init == ClientInit /\ DecoderOff /\ PluginOff

(* request(): the id is generated and the request is POSTed *)
RequestPost(c, schemas, timeouts, randoms) ==
    /\ rq[c].pc = "idle"
    /\ \E schema \in schemas, timeoutMs \in timeouts, random \in randoms :
        LET requestId == generateRequestId(DateNow, random)
            payload == [NoPayload EXCEPT !.type = "request",
                                         !.request_id = requestId,
                                         !.schema = schema,
                                         !.timeout_ms = timeoutMs]
            r1 == [rq[c] EXCEPT !.call = FetchCall(RequestPath, payload, "POST")]
        IN  \/ /\ requestId \notin LedgerIds
               /\ ledger' = LedgerCreate(requestId, c, schema, timeoutMs)
               /\ rq' = [rq EXCEPT ![c] =
                           requestPosted(r1, requestId, timeoutMs, AckResponse)]
               /\ UNCHANGED faults
            \/ /\ requestId \in LedgerIds \/ faults < MaxFaults
               /\ \E response \in ErrorResponses :
                     rq' = [rq EXCEPT ![c] =
                              requestPosted(r1, requestId, timeoutMs, response)]
               /\ faults' = IF requestId \in LedgerIds THEN faults ELSE faults + 1
               /\ UNCHANGED ledger
    /\ UNCHANGED <<now, config, client, pv, dvars, hvars>>

RequestLoop(c) ==
    /\ rq[c].pc = "loop"
    /\ rq' = [rq EXCEPT ![c] = loopCheck(@)]
    /\ UNCHANGED <<now, config, client, pv, ledger, faults, dvars, hvars>>

(* sleep(pollInterval) is over *)
RequestWake(c) ==
    /\ rq[c].pc = "sleeping"
    /\ now >= rq[c].wakeAt
    /\ rq' = [rq EXCEPT ![c].pc = "fetch"]
    /\ UNCHANGED <<now, config, client, pv, ledger, faults, dvars, hvars>>

RequestFetchResult(c) ==
    /\ rq[c].pc = "fetch"
    /\ LET r1 == [rq[c] EXCEPT !.call =
                    FetchCall(ResultPath(rq[c].requestId), NoPayload, "GET")]
       IN  \/ /\ rq' = [rq EXCEPT ![c] =
                          resultFetched(r1, ResultAnswer(r1.requestId))]
              /\ ledger' = Touch(ledger, r1.requestId)
              /\ UNCHANGED faults
           \/ /\ faults < MaxFaults
              /\ \E response \in ErrorResponses :
                    rq' = [rq EXCEPT ![c] = resultFetched(r1, response)]
              /\ faults' = faults + 1
              /\ UNCHANGED ledger
    /\ UNCHANGED <<now, config, client, pv, dvars, hvars>>

(* poll() by a provider *)
Poll(p) ==
    /\ pv[p].n < MaxResponds
    /\ pv' = [pv EXCEPT ![p].polled = polled(AckResponse, ListPending),
                        ![p].call =
                            FetchCall(PollPath, [NoPayload EXCEPT !.type = "poll"],
                                      "POST")]
    /\ UNCHANGED <<now, config, client, rq, ledger, faults, dvars, hvars>>

(* respond(requestId, output) by a provider, for a request it has polled   *)
(* or for an id of its own making                                          *)
Respond(p, ownIds) ==
    /\ pv[p].n < MaxResponds
    /\ \E requestId \in {q.request_id : q \in pv[p].polled.requests}
                            \cup ownIds,
          output \in ProviderOutputs(p) :
       \E answer \in SubmitAnswers(requestId) :
        LET payload == [NoPayload EXCEPT !.type = "response",
                                         !.request_id = requestId,
                                         !.output = output]
        IN  /\ ledger' = SubmitLedger(requestId, output)
            /\ pv' = [pv EXCEPT ![p] =
                        [n |-> @.n + 1, polled |-> NoPollResult,
                         requestId |-> requestId, output |-> output,
                         call |-> FetchCall(ResponsePath, payload, "POST"),
                         resp |-> answer,
                         result |-> responded(answer)]]
    /\ UNCHANGED <<now, config, client, rq, faults, dvars, hvars>>

(* time passes, up to the next wake-up or deadline, while nobody is busy *)
TimePoints ==
    {rq[c].wakeAt : c \in {d \in Requesters : rq[d].pc = "sleeping"}}
        \cup {e.deadline : e \in {f \in ledger : f.status = "pending"}}

Tick ==
    /\ \A c \in Requesters : rq[c].pc \notin {"loop", "fetch"}
    /\ \A c \in Requesters : rq[c].pc = "sleeping" => rq[c].wakeAt > now
    /\ \E t \in TimePoints :
        /\ t > now
        /\ \A u \in TimePoints : u > now => t <= u
        /\ now' = t
    /\ UNCHANGED <<config, client, rq, pv, ledger, faults, dvars, hvars>>

(* the proxy is shut down and started again: the in-memory ledger is lost *)
LedgerTeardown ==
    /\ faults < MaxFaults
    /\ ledger # {}
    /\ ledger' = {}
    /\ faults' = faults + 1
    /\ UNCHANGED <<now, config, client, rq, pv, dvars, hvars>>

(* two requesters with short requests and two providers; the second        *)
(* requester may draw the random part the first always draws, the second   *)
(* provider may answer an id of its own making                             *)
Next ==
    \/ RequestPost("r1", Schemas, ShortTimeouts, {RandomPart})
    \/ RequestPost("r2", {Structured}, {100}, RandomParts)
    \/ \E c \in Requesters : RequestLoop(c)
    \/ \E c \in Requesters : RequestWake(c)
    \/ \E c \in Requesters : RequestFetchResult(c)
    \/ \E p \in Providers : Poll(p)
    \/ Respond("p1", {})
    \/ Respond("p2", BogusIds)
    \/ Tick

Spec == Init /\ [][Next]_vars

(* one requester whose request may be long, one provider, and a proxy that *)
(* may lose its ledger                                                     *)
NextPolling ==
    \/ RequestPost("r1", Schemas, LongTimeouts, {RandomPart})
    \/ RequestLoop("r1")
    \/ RequestWake("r1")
    \/ RequestFetchResult("r1")
    \/ Poll("p1")
    \/ Respond("p1", BogusIds)
    \/ Tick
    \/ LedgerTeardown

SpecPolling == Init /\ [][NextPolling]_vars

(* the event loop runs a continuation that is ready, timers fire, and the  *)
(* proxy answers every fetch                                               *)
SpecPollingFair ==
    /\ SpecPolling
    /\ WF_vars(RequestLoop("r1"))
    /\ WF_vars(RequestWake("r1"))
    /\ WF_vars(RequestFetchResult("r1"))
    /\ WF_vars(Tick)

(***************************************************************************)
(* The decoder run alone.                                                  *)
(***************************************************************************)
ClientOff ==
    /\ now = 0
    /\ config = [proxyUrl |-> <<"h">>,
                 subscriptions |-> [p \in Providers |-> NoSubscriptions]]
    /\ client = NewNoemaClient(config)
    /\ rq = [c \in Requesters |-> IdleRequester]
    /\ pv = [p \in Providers |-> IdleProvider]
    /\ ledger = {}
    /\ faults = 0

InitDecode == DecodeInit /\ ClientOff /\ PluginOff

DecodeNext == FieldEncode \/ RawToken \/ Decode

SpecDecode == InitDecode /\ [][DecodeNext]_vars

(***************************************************************************)
(* The two functions of decode.ts called in any order on texts that change *)
(* between the calls.                                                      *)
(***************************************************************************)
TextInit ==
    /\ dPc = "text"
    /\ dSrc = <<>>
    /\ dParts = <<>>
    /\ dText = <<>>
    /\ dOut = <<>>
    /\ dHas = FALSE
    /\ lastIndex = 0
    /\ dStale = FALSE

(* the text grows by a part; the results of the calls on the old text go *)
AppendPart ==
    /\ Len(dParts) < MaxParts
    /\ \E p \in Parts :
          /\ dParts' = Append(dParts, p)
          /\ dText' = TextOf(Append(dParts, p))
    /\ dPc' = "text"
    /\ dOut' = <<>>
    /\ dHas' = FALSE
    /\ dStale' = FALSE
    /\ UNCHANGED <<dSrc, lastIndex, cvars, hvars>>

(* a new text is begun *)
ClearText ==
    /\ dParts # <<>>
    /\ dParts' = <<>>
    /\ dText' = <<>>
    /\ dPc' = "text"
    /\ dOut' = <<>>
    /\ dHas' = FALSE
    /\ dStale' = FALSE
    /\ UNCHANGED <<dSrc, lastIndex, cvars, hvars>>

(* hasNoemaTokens(dText) *)
HasTokens ==
    /\ dPc \in {"text", "has", "decoded", "both"}
    /\ LET r == hasNoemaTokensCall(dText, lastIndex)
       IN  /\ dHas' = r.result
           /\ lastIndex' = r.lastIndex
    /\ dPc' = IF dPc \in {"decoded", "both"} THEN "both" ELSE "has"
    /\ dStale' = (lastIndex # 0)
    /\ UNCHANGED <<dSrc, dText, dOut, dParts, cvars, hvars>>

(* decodeNoema(dText) *)
DecodeText ==
    /\ dPc \in {"text", "has", "decoded", "both"}
    /\ LET r == decodeNoemaCall(dText, lastIndex)
       IN  /\ dOut' = r.result
           /\ lastIndex' = r.lastIndex
    /\ dPc' = IF dPc \in {"has", "both"} THEN "both" ELSE "decoded"
    /\ dStale' = (lastIndex # 0)
    /\ UNCHANGED <<dSrc, dText, dHas, dParts, cvars, hvars>>

InitText == TextInit /\ ClientOff /\ PluginOff

TextNext == AppendPart \/ ClearText \/ HasTokens \/ DecodeText

SpecText == InitText /\ [][TextNext]_vars

(***************************************************************************)
(* The plugin: register() of index.ts and the tools of tools.ts.           *)
(***************************************************************************)
(* bound: the tools made by hand, besides those register() makes *)
MaxDirectTools == 1

Roles == {"requester", "provider", "both"}

ToolNames == {"noema_request", "noema_poll", "noema_respond"}

(* !x of a string option: undefined or the empty string *)
Falsy(x) == ~x.defined \/ x.val = <<>>

(* a complete configuration, and the configurations openclaw.yaml may      *)
(* hold: none, a complete one for each role, the provider's also with      *)
(* subscriptions, and one with an option missing, empty or wrong           *)
PluginConfigOf(role, subscriptions) ==
    [present |-> TRUE, proxyUrl |-> Some(<<"h", "/">>), token |-> Some(<<"t">>),
     role |-> Some(role), subscriptions |-> subscriptions]

PluginConfigs ==
    {NoPluginConfig}
        \cup {PluginConfigOf(r, NoSubscriptions) : r \in Roles}
        \cup {PluginConfigOf("provider", SubscribedTo({"r1"}))}
        \cup {[PluginConfigOf("both", NoSubscriptions) EXCEPT !.proxyUrl = u] :
                 u \in {NoString, Some(<<>>)}}
        \cup {[PluginConfigOf("both", NoSubscriptions) EXCEPT !.token = t] :
                 t \in {NoString, Some(<<>>)}}
        \cup {[PluginConfigOf("both", NoSubscriptions) EXCEPT !.role = r] :
                 r \in {NoRole, Some(""), Some("admin")}}

(* the null that getConfig returns for no or a bad configuration *)
NullConfig ==
    [valid |-> FALSE, proxyUrl |-> <<>>, token |-> <<>>, role |-> "",
     subscriptions |-> NoSubscriptions]

(* a getConfig that takes whatever the configuration object holds *)
getConfigUnchecked(cfg) ==
    IF ~cfg.present THEN NullConfig
    ELSE [valid |-> TRUE, proxyUrl |-> cfg.proxyUrl.val,
          token |-> cfg.token.val, role |-> cfg.role.val,
          subscriptions |-> cfg.subscriptions]

(* getConfig: the NoemaConfig, or null *)
getConfig(cfg) ==
    IF ~cfg.present THEN NullConfig
    ELSE IF Falsy(cfg.proxyUrl) THEN NullConfig
    ELSE IF Falsy(cfg.token) THEN NullConfig
    ELSE IF ~cfg.role.defined \/ cfg.role.val = "" \/ cfg.role.val \notin Roles
    THEN NullConfig
    ELSE [valid |-> TRUE, proxyUrl |-> cfg.proxyUrl.val,
          token |-> cfg.token.val, role |-> cfg.role.val,
          subscriptions |-> cfg.subscriptions]

(* a createNoemaTools that gives every role all three tools *)
createNoemaToolsAnyRole(cfg, clientId) ==
    [client |-> NewNoemaClient(cfg),
     tools |-> <<Tool("noema_request", cfg.role, clientId),
                 Tool("noema_poll", cfg.role, clientId),
                 Tool("noema_respond", cfg.role, clientId)>>]

(* createNoemaTools: the client it constructs, which becomes the client    *)
(* clientId, and the tools it returns, in order                            *)
createNoemaTools(cfg, clientId) ==
    [client |-> NewNoemaClient(cfg),
     tools |->
        (IF cfg.role = "requester" \/ cfg.role = "both"
         THEN <<Tool("noema_request", cfg.role, clientId)>>
         ELSE <<>>)
        \o (IF cfg.role = "provider" \/ cfg.role = "both"
            THEN <<Tool("noema_poll", cfg.role, clientId),
                   Tool("noema_respond", cfg.role, clientId)>>
            ELSE <<>>)]

(* what register() does to the host, in order: api.registerTool(tool),     *)
(* api.on(hookName, handler), and its last log line                        *)
RegisteredTool(tool) == [kind |-> "tool", name |-> tool.name, tool |-> tool]
RegisteredHook(hookName) == [kind |-> "hook", name |-> hookName, tool |-> NoTool]
Logged(line) == [kind |-> "log", name |-> line, tool |-> NoTool]

(* the plugin is loaded with some configuration; no client exists yet *)
PluginLoaded(configs) ==
    /\ pluginConfig \in configs
    /\ clients = <<>>
    /\ tools = {}
    /\ registered = <<>>
    /\ exec = [c \in Requesters \cup Providers |-> NoExec]
    /\ msg = NoMsg

NoClientYet ==
    /\ now = 0
    /\ config = NullConfig
    /\ client = NewNoemaClient(NullConfig)
    /\ rq = [c \in Requesters |-> IdleRequester]
    /\ pv = [p \in Providers |-> IdleProvider]
    /\ ledger = {}
    /\ faults = 0

(* register(api), called once by the host *)
Register ==
    /\ registered = <<>>
    /\ LET cfg == getConfig(pluginConfig)
       IN  IF ~cfg.valid
           THEN /\ registered' = <<Logged("not activated")>>
                /\ UNCHANGED <<config, client, clients, tools>>
           ELSE LET made == createNoemaTools(cfg, Len(clients) + 1)
                IN  /\ config' = cfg
                    /\ client' = made.client
                    /\ clients' = Append(clients, made.client)
                    /\ tools' = tools \cup {made.tools[i] :
                                                i \in 1..Len(made.tools)}
                    /\ registered' =
                          [i \in 1..Len(made.tools) |->
                              RegisteredTool(made.tools[i])]
                          \o <<RegisteredHook("message_sending"),
                               Logged("activated")>>
    /\ UNCHANGED <<now, rq, pv, ledger, faults, pluginConfig, exec, msg, dvars>>

(* an exported tool factory called by hand: createNoemaRequestTool,       *)
(* createNoemaPollTool or createNoemaRespondTool, with a client that       *)
(* exists and a role other than the configured one                         *)
CreateTool ==
    /\ Cardinality(tools) - Cardinality({i \in 1..Len(registered) :
                                            registered[i].kind = "tool"})
          < MaxDirectTools
    /\ \E name \in ToolNames, role \in Roles \ {config.role},
          k \in 1..Len(clients) :
          /\ Tool(name, role, k) \notin tools
          /\ tools' = tools \cup {Tool(name, role, k)}
    /\ UNCHANGED <<cvars, pluginConfig, clients, registered, exec, msg, dvars>>

(* a role check that lets every role pass *)
AllowsAnyRole(name, role) == TRUE

(* the role check at the head of each execute() *)
Allows(name, role) ==
    IF name = "noema_request" THEN role = "requester" \/ role = "both"
    ELSE role = "provider" \/ role = "both"

RequiresText(name) ==
    CASE name = "noema_request" ->
            "noema_request requires 'requester' or 'both' role"
      [] name = "noema_poll" -> "noema_poll requires 'provider' or 'both' role"
      [] OTHER -> "noema_respond requires 'provider' or 'both' role"

RoleError(name, role) ==
    [NoToolResult EXCEPT !.error = RequiresText(name), !.configured_role = role]

RequestIdRequired == [NoToolResult EXCEPT !.error = "request_id is required"]

(* timeout_ms of noema_request: the number given, or 30000 *)
DefaultTimeoutMs == 30000

TimeoutOf(params) ==
    IF params.timeout_ms.defined THEN params.timeout_ms.val ELSE DefaultTimeoutMs

(* the params an agent passes: a short timeout; no request_id, an empty    *)
(* one, one of its own making or one it has polled                         *)
ParamsOf(name, p) ==
    IF name = "noema_request"
    THEN {[NoParams EXCEPT !.timeout_ms = Some(t)] : t \in ShortTimeouts}
    ELSE IF name = "noema_respond"
    THEN {[NoParams EXCEPT !.request_id = r] :
             r \in {NoString, Some(<<>>)}
                     \cup {Some(id) : id \in BogusIds}
                     \cup {Some(q.request_id) : q \in pv[p].polled.requests}}
    ELSE {NoParams}

(* what the tools make of the client's results *)
requestToolResult(result) ==
    IF result.success
    THEN [NoToolResult EXCEPT !.success = "true",
                              !.request_id = result.request_id,
                              !.output = result.output]
    ELSE [NoToolResult EXCEPT !.success = "false",
                              !.request_id = result.request_id,
                              !.error_code = result.error_code,
                              !.error_details = result.error_details]

pollToolResult(result) ==
    IF result.success
    THEN [NoToolResult EXCEPT !.success = "true",
                              !.pending_count = Cardinality(result.requests),
                              !.requests = result.requests]
    ELSE [NoToolResult EXCEPT !.success = "false", !.error = result.error]

respondToolResult(requestId, result) ==
    IF result.success
    THEN [NoToolResult EXCEPT !.success = "true",
                              !.message = "Response sent for request",
                              !.request_id = requestId]
    ELSE [NoToolResult EXCEPT !.success = "false", !.error = result.error]

(* the agent whose call a tool serves in this model: the requester for     *)
(* noema_request, the provider for the other two                           *)
AgentOf(name) == IF name = "noema_request" THEN "r1" ELSE "p1"

(* tool.execute(id, params) is called: the checks at its head either       *)
(* return at once, or the call goes on to the client                       *)
ToolCall(tool) ==
    LET a == AgentOf(tool.name)
    IN  /\ exec[a].pc # "running"
        /\ \E params \in ParamsOf(tool.name, a), output \in ProviderOutputs("p1") :
            LET call == [NoExec EXCEPT !.tool = tool, !.params = params]
            IN  IF ~Allows(tool.name, tool.role)
                THEN /\ exec' = [exec EXCEPT ![a] =
                            [call EXCEPT !.pc = "returned",
                                         !.result = RoleError(tool.name, tool.role)]]
                     /\ UNCHANGED <<client, rq, pv>>
                ELSE IF tool.name = "noema_respond" /\ Falsy(params.request_id)
                THEN /\ exec' = [exec EXCEPT ![a] =
                            [call EXCEPT !.pc = "returned",
                                         !.result = RequestIdRequired]]
                     /\ UNCHANGED <<client, rq, pv>>
                ELSE /\ IF a = "r1" THEN rq[a].pc = "idle"
                        ELSE pv[a].n < MaxResponds
                     /\ exec' = [exec EXCEPT ![a] =
                            [call EXCEPT !.pc = "running",
                                         !.output = IF tool.name = "noema_respond"
                                                    THEN output ELSE NoOutput]]
                     /\ client' = clients[tool.client]
                     /\ pv' = IF a = "r1" THEN pv
                              ELSE [pv EXCEPT ![a].call = NoCall]
                     /\ UNCHANGED rq
        /\ UNCHANGED <<now, config, ledger, faults, pluginConfig, clients,
                       tools, registered, msg, dvars>>

(* noema_request goes on: client.request(schema, input, timeoutMs) *)
ExecuteRequest ==
    /\ exec["r1"].pc = "running"
    /\ RequestPost("r1", {Structured}, {TimeoutOf(exec["r1"].params)},
                   {RandomPart})

(* noema_poll goes on: client.poll() *)
ExecutePoll ==
    /\ exec["p1"].pc = "running"
    /\ exec["p1"].tool.name = "noema_poll"
    /\ pv["p1"].call = NoCall
    /\ Poll("p1")

(* noema_respond goes on: client.respond(requestId, output) *)
ExecuteRespond ==
    /\ exec["p1"].pc = "running"
    /\ exec["p1"].tool.name = "noema_respond"
    /\ pv["p1"].call = NoCall
    /\ Respond("p1", {exec["p1"].params.request_id.val})
    /\ pv'["p1"].requestId = exec["p1"].params.request_id.val
    /\ pv'["p1"].output = exec["p1"].output

(* the client's promise is settled and execute() returns the JSON text *)
ToolReturn(a) ==
    /\ exec[a].pc = "running"
    /\ IF a = "r1" THEN rq[a].pc = "done" ELSE pv[a].call # NoCall
    /\ exec' = [exec EXCEPT ![a].pc = "returned",
                            ![a].result =
            IF exec[a].tool.name = "noema_request"
            THEN requestToolResult(rq[a].result)
            ELSE IF exec[a].tool.name = "noema_poll"
            THEN pollToolResult(pv[a].polled)
            ELSE respondToolResult(exec[a].params.request_id.val, pv[a].result)]
    /\ UNCHANGED <<cvars, pluginConfig, clients, tools, registered, msg, dvars>>

InitPlugin == PluginLoaded(PluginConfigs) /\ NoClientYet /\ DecoderOff

NextPlugin ==
    \/ Register
    \/ CreateTool
    \/ \E tool \in tools : ToolCall(tool)
    \/ ExecuteRequest
    \/ RequestLoop("r1")
    \/ RequestWake("r1")
    \/ RequestFetchResult("r1")
    \/ ExecutePoll
    \/ ExecuteRespond
    \/ \E a \in {"r1", "p1"} : ToolReturn(a)
    \/ Tick

SpecPlugin == InitPlugin /\ [][NextPlugin]_vars

(***************************************************************************)
(* The message_sending hook of index.ts.                                   *)
(***************************************************************************)
(* bound: the parts of a message *)
MaxMessageParts == 2

(* event.content: a string, or something else (undefined, a number) *)
StringContent(text) == [kind |-> "string", content |-> text]
OtherContent(kind) == [kind |-> kind, content |-> <<>>]
OtherKinds == {"undefined", "number"}

(* a handler that never returns anything *)
messageSendingNothing(event, li) ==
    [returned |-> FALSE, content |-> <<>>, cancel |-> FALSE, has |-> FALSE,
     lastIndex |-> li]

(* the handler: whether it returns an object, the content and the cancel   *)
(* of that object, what hasNoemaTokens said, and the lastIndex it leaves   *)
messageSending(event, li) ==
    IF event.kind # "string" \/ event.content = <<>>
    THEN [returned |-> FALSE, content |-> <<>>, cancel |-> FALSE,
          has |-> FALSE, lastIndex |-> li]
    ELSE LET h == hasNoemaTokensCall(event.content, li)
         IN  IF ~h.result
             THEN [returned |-> FALSE, content |-> <<>>, cancel |-> FALSE,
                   has |-> FALSE, lastIndex |-> h.lastIndex]
             ELSE LET d == decodeNoemaCall(event.content, h.lastIndex)
                  IN  [returned |-> TRUE, content |-> d.result,
                       cancel |-> FALSE, has |-> TRUE,
                       lastIndex |-> d.lastIndex]

HookRegistered ==
    \E i \in 1..Len(registered) :
        registered[i] = RegisteredHook("message_sending")

(* the host emits message_sending with the text as content *)
MessageSending ==
    /\ HookRegistered
    /\ dPc \in {"text", "has"}
    /\ LET r == messageSending(StringContent(dText), lastIndex)
       IN  /\ msg' = [kind |-> "string", returned |-> r.returned,
                      cancel |-> r.cancel]
           /\ dOut' = r.content
           /\ dHas' = r.has
           /\ lastIndex' = r.lastIndex
    /\ dPc' = "sent"
    /\ dStale' = (lastIndex # 0)
    /\ UNCHANGED <<dSrc, dText, dParts, cvars, pluginConfig, clients, tools,
                   registered, exec>>

(* the host emits message_sending with a content that is no string *)
MessageSendingOther ==
    /\ HookRegistered
    /\ dPc \in {"text", "has"}
    /\ \E kind \in OtherKinds :
        LET r == messageSending(OtherContent(kind), lastIndex)
        IN  /\ msg' = [kind |-> kind, returned |-> r.returned,
                       cancel |-> r.cancel]
            /\ dOut' = r.content
            /\ dHas' = r.has
            /\ lastIndex' = r.lastIndex
    /\ dPc' = "sent"
    /\ dStale' = (lastIndex # 0)
    /\ UNCHANGED <<dSrc, dText, dParts, cvars, pluginConfig, clients, tools,
                   registered, exec>>

(* the plugin with no configuration or a complete one, and the texts of    *)
(* the messages                                                            *)
HookConfigs == {NoPluginConfig, PluginConfigOf("requester", NoSubscriptions)}

InitHook == PluginLoaded(HookConfigs) /\ NoClientYet /\ TextInit

(* the next message grows by a part *)
MessagePart ==
    /\ HookRegistered
    /\ Len(dParts) < MaxMessageParts
    /\ AppendPart

NextHook ==
    \/ Register
    \/ MessagePart
    \/ ClearText
    \/ HasTokens
    \/ MessageSending
    \/ MessageSendingOther

SpecHook == InitHook /\ [][NextHook]_vars

(***************************************************************************)
(* Properties.                                                             *)
(***************************************************************************)
(* C1: decodeNoema applied to the token of any string s, the empty string  *)
(* included, returns exactly s.                                            *)
RoundTrip == dPc = "decodedEncoded" => dOut = dSrc

(* C2: a token whose payload is made of base64-alphabet characters but is  *)
(* not a valid base64 encoding is left unchanged by decodeNoema.           *)
FailOpenOnDecode ==
    (dPc = "decodedRaw" /\ ~ValidBase64(PayloadOf(dText))) => dOut = dText

(* C3: every fetch of a requester (request, result polling) and of a       *)
(* provider (poll, respond) goes to the configured proxyUrl without its    *)
(* trailing slashes followed by the fixed path of the call; nothing the    *)
(* agent passes changes the host or the path prefix.                       *)
CallsGoToProxy ==
    LET base == StripTrailingSlashes(config.proxyUrl)
    IN  /\ \A c \in Requesters :
            rq[c].call # NoCall =>
                /\ IsPrefix(base, rq[c].call.url)
                /\ rq[c].call.url \in
                      {base \o RequestPath, base \o ResultPath(rq[c].requestId)}
        /\ \A p \in Providers :
            pv[p].call # NoCall =>
                /\ IsPrefix(base, pv[p].call.url)
                /\ pv[p].call.url \in {base \o PollPath, base \o ResponsePath}

(* a result fetch and a respond() for an id of the agent's making, under a *)
(* proxyUrl configured with trailing slashes                               *)
CallsGoToProxyWitness ==
    /\ config.proxyUrl # client.proxyUrl
    /\ \E c \in Requesters : rq[c].call.method = "GET"
    /\ \E p \in Providers :
          pv[p].requestId \in BogusIds /\ pv[p].call.method = "POST"

(* C4: request() returns success only from a result fetch for its own id   *)
(* answered OK with status success, with that result's output, which is    *)
(* the output of the fulfilled ledger entry; a result with status error is *)
(* returned as a failure with the same error_code.                         *)
SuccessOnlyFromResult ==
    \A c \in Requesters :
        rq[c].pc = "done" =>
            /\ rq[c].result.request_id = rq[c].requestId
            /\ rq[c].result.success =>
                  /\ rq[c].call =
                        FetchCall(ResultPath(rq[c].requestId), NoPayload, "GET")
                  /\ rq[c].resp.ok
                  /\ rq[c].resp.body.status = "success"
                  /\ rq[c].result.output = rq[c].resp.body.output
                  /\ rq[c].requestId \in LedgerIds
                  /\ EntryOf(ledger, rq[c].requestId).status = "fulfilled"
                  /\ EntryOf(ledger, rq[c].requestId).output = rq[c].result.output
            /\ (rq[c].resp.ok /\ rq[c].resp.body.status # "success") =>
                  /\ ~rq[c].result.success
                  /\ rq[c].result.error_code = rq[c].resp.body.error_code
                  /\ rq[c].requestId \in LedgerIds
                  /\ EntryOf(ledger, rq[c].requestId).error_code =
                        rq[c].result.error_code

(* one request has returned a success, another the TIMEOUT of the ledger *)
SuccessOnlyFromResultWitness ==
    \E c, d \in Requesters :
        /\ rq[c].pc = "done" /\ rq[c].result.success
        /\ rq[d].pc = "done" /\ rq[d].resp.ok
        /\ rq[d].result.error_code = "TIMEOUT"

(* C5, as stated: when two providers have responded to one request with    *)
(* different outputs and one of them was accepted, exactly one respond()   *)
(* reports success and request() returns the winner's output.              *)
WinnerOutputReturned ==
    \A c \in Requesters : \A p, q \in Providers :
        ( /\ p # q
          /\ faults = 0
          /\ rq[c].pc = "done" /\ rq[c].call.method = "GET"
          /\ pv[p].n > 0 /\ pv[q].n > 0
          /\ pv[p].requestId = rq[c].requestId
          /\ pv[q].requestId = rq[c].requestId
          /\ pv[p].output # pv[q].output
          /\ rq[c].requestId \in LedgerIds
          /\ EntryOf(ledger, rq[c].requestId).from = c
          /\ EntryOf(ledger, rq[c].requestId).status \in {"fulfilled", "failed"} )
        => \E w \in {p, q} :
              /\ pv[w].result.success
              /\ \A l \in {p, q} \ {w} : ~pv[l].result.success
              /\ rq[c].result.success
              /\ rq[c].result.output = pv[w].output

(* the state part of C5 as amended *)
SingleWinnerState ==
    /\ \A p, q \in Providers :
          ( /\ p # q /\ pv[p].n > 0 /\ pv[q].n > 0
            /\ pv[p].requestId = pv[q].requestId
            /\ pv[p].output # pv[q].output )
          => ~(pv[p].result.success /\ pv[q].result.success)
    /\ \A p \in Providers :
          (pv[p].n > 0 /\ pv[p].result.success) =>
              /\ pv[p].requestId \in LedgerIds
              /\ EntryOf(ledger, pv[p].requestId).status \in {"fulfilled", "failed"}
              /\ EntryOf(ledger, pv[p].requestId).submitted = pv[p].output
    /\ \A c \in Requesters :
          ( /\ rq[c].pc = "done" /\ rq[c].call.method = "GET" /\ rq[c].resp.ok
            /\ rq[c].requestId \in LedgerIds )
          => LET e == EntryOf(ledger, rq[c].requestId)
             IN  /\ e.status = "fulfilled" =>
                        rq[c].result =
                            Success(rq[c].requestId,
                                    FieldEncoder(e.schema, e.submitted))
                 /\ e.status = "failed" =>
                        /\ ~rq[c].result.success
                        /\ rq[c].result.error_code = "VALIDATION_FAILED"

(* the step part of C5 as amended: a respond() reports success exactly     *)
(* when the request was pending and not expired                            *)
SingleWinnerStep ==
    \A p \in Providers :
        pv'[p].n = pv[p].n + 1 =>
            LET rid == pv'[p].requestId
            IN  pv'[p].result.success <=>
                    /\ rid \in LedgerIds
                    /\ EntryOf(ledger, rid).status = "pending"
                    /\ now < EntryOf(ledger, rid).deadline

(* C5, amended: of the respond() calls for one request the first one made  *)
(* while it is pending and not expired reports success and every other one *)
(* reports failure, so two calls with different outputs never both         *)
(* succeed; request() returns the result made from the winner's output:    *)
(* the field-encoded output if it validates, VALIDATION_FAILED otherwise.  *)
SingleWinner == []SingleWinnerState /\ [][SingleWinnerStep]_vars

(* both providers have responded to one request with different outputs,    *)
(* one has won, and the request has returned a success                     *)
SingleWinnerWitness ==
    \E c \in Requesters : \E p, q \in Providers :
        /\ rq[c].pc = "done" /\ rq[c].result.success
        /\ pv[p].n > 0 /\ pv[q].n > 0
        /\ pv[p].requestId = rq[c].requestId
        /\ pv[q].requestId = rq[c].requestId
        /\ pv[p].output # pv[q].output
        /\ pv[p].result.success /\ ~pv[q].result.success

(* C6: while request() has not returned, no more than timeoutMs has passed *)
(* since polling started.                                                  *)
WaitBoundedByTimeout ==
    \A c \in Requesters :
        rq[c].pc \in {"loop", "sleeping", "fetch"} =>
            now - rq[c].startTime <= Ticks(rq[c].timeoutMs)

(* C7: a 404 answer to a result fetch does not end request(): the loop is  *)
(* entered again with no result, and while the timeout has not elapsed the *)
(* next sleep and the next fetch follow; before the timeout has elapsed    *)
(* only a fetch answered OK or with an error status other than 404 makes   *)
(* request() return.                                                       *)
NotFoundKeepsPolling ==
    [][\A c \in Requesters :
          rq'[c] # rq[c] =>
            /\ (rq[c].pc = "fetch" /\ rq'[c].resp.status = 404) =>
                  /\ rq'[c].pc = "loop"
                  /\ rq'[c].result = NoResult
            /\ ( /\ rq[c].pc = "loop" /\ rq[c].resp.status = 404
                 /\ now - rq[c].startTime < Ticks(rq[c].timeoutMs) ) =>
                  rq'[c].pc = "sleeping"
            /\ rq[c].pc = "sleeping" => rq'[c].pc = "fetch"
            /\ ( /\ rq[c].pc \in {"loop", "sleeping", "fetch"}
                 /\ rq'[c].pc = "done"
                 /\ now - rq[c].startTime < Ticks(rq[c].timeoutMs) ) =>
                  /\ rq[c].pc = "fetch"
                  /\ rq'[c].resp.ok \/ rq'[c].resp.status # 404]_vars

(* after a 404 the next result fetch is about to be made *)
NotFoundKeepsPollingWitness ==
    \E c \in Requesters :
        /\ rq[c].pc = "fetch"
        /\ rq[c].resp.status = 404
        /\ now - rq[c].startTime < Ticks(rq[c].timeoutMs)

(* the step part of C8 *)
TimeoutStep ==
    \A c \in Requesters :
        /\ ( /\ rq[c].pc = "loop" /\ rq'[c] # rq[c]
             /\ now - rq[c].startTime >= Ticks(rq[c].timeoutMs) ) =>
              /\ rq'[c].pc = "done"
              /\ ~rq'[c].result.success
              /\ rq'[c].result.error_code = "TIMEOUT"
              /\ rq'[c].result.request_id = rq[c].requestId
              /\ rq'[c].call = rq[c].call
        /\ (rq[c].pc = "done" /\ rq[c].resp.status = 404) =>
              /\ rq[c].result.error_code = "TIMEOUT"
              /\ rq[c].result.request_id = rq[c].requestId
        /\ rq[c].pc = "done" => rq'[c] = rq[c]

(* C8: a request() whose result fetches are all answered 404 until the     *)
(* timeout has elapsed returns, and what it returns is the failure TIMEOUT *)
(* with the request_id it generated; once it has returned it makes no      *)
(* further fetch.                                                          *)
TimeoutTerminates ==
    /\ [][TimeoutStep]_vars
    /\ (rq["r1"].pc \in {"loop", "sleeping", "fetch"}) ~> (rq["r1"].pc = "done")

(* request() has returned TIMEOUT after a last fetch answered 404 *)
TimeoutTerminatesWitness ==
    \E c \in Requesters :
        /\ rq[c].pc = "done"
        /\ rq[c].resp.status = 404
        /\ rq[c].result = Failure(rq[c].requestId, "TIMEOUT",
                                  Details("Request timed out"))

(* C9: the first wait before a result fetch is 500 ms; a 404 makes the     *)
(* next wait min(1.5 x the wait before, 5000 ms); the wait never decreases *)
(* and never exceeds 5000 ms.                                              *)
Backoff ==
    [][\A c \in Requesters :
          /\ (rq[c].pc = "loop" /\ rq'[c].pc = "sleeping") =>
                /\ rq'[c].wakeAt - now = rq[c].pollInterval
                /\ rq[c].resp = NoResponse =>
                      rq'[c].wakeAt - now = Ticks(InitialPollIntervalMs)
          /\ (rq[c].pc = "fetch" /\ rq'[c].pc = "loop") =>
                2 * rq'[c].pollInterval =
                    Min(3 * rq[c].pollInterval, 2 * Ticks(MaxPollIntervalMs))
          /\ ( /\ rq[c].pc \in {"loop", "sleeping", "fetch"}
               /\ rq'[c].pc \in {"loop", "sleeping", "fetch"} ) =>
                /\ rq'[c].pollInterval >= rq[c].pollInterval
                /\ rq'[c].pollInterval <= Ticks(MaxPollIntervalMs)]_vars

(* the wait has reached the cap *)
BackoffWitness ==
    \E c \in Requesters :
        /\ rq[c].pc = "sleeping"
        /\ rq[c].pollInterval = Ticks(MaxPollIntervalMs)
        /\ rq[c].wakeAt > now

(* C10: two request() calls never submit the same request_id. *)
IdentifiersDistinct ==
    \A c, d \in Requesters :
        (c # d /\ rq[c].pc # "idle" /\ rq[d].pc # "idle") =>
            rq[c].requestId # rq[d].requestId

(* C11: a text for which hasNoemaTokens has answered false is returned     *)
(* unchanged by decodeNoema.                                               *)
PlainTextUnchanged == (dPc = "both" /\ ~dHas) => dOut = dText

(* both functions have been called on a text with a delimited substring    *)
(* that is no token, and hasNoemaTokens has answered false                 *)
PlainTextUnchangedWitness ==
    /\ dPc = "both"
    /\ ~dHas
    /\ \E i \in 1..Len(dParts) : dParts[i].kind = "malformed"
    /\ \E i \in 1..Len(dParts) : dParts[i].kind = "plain"


(* C12: decodeNoema replaces every token of a text made of plain           *)
(* characters and tokens (none, one, several, adjacent ones) by the string *)
(* it encodes and keeps everything else as it is and in the same order;    *)
(* "A §b64:QQ==§ B §b64:Qg==§" becomes "A A B B".                          *)
AllTokensReplaced ==
    /\ ( /\ dPc \in {"decoded", "both"}
         /\ \A i \in 1..Len(dParts) : dParts[i].kind \in {"plain", "token"} )
       => dOut = Decoded(dParts)
    /\ decodeNoemaCall(<<65, 32>> \o Token(<<81, 81, 61, 61>>) \o <<32, 66, 32>>
                           \o Token(<<81, 103, 61, 61>>), lastIndex).result
          = <<65, 32, 65, 32, 66, 32, 66>>

(* a text of two different adjacent tokens and a plain character has been  *)
(* decoded                                                                 *)
AllTokensReplacedWitness ==
    /\ dPc \in {"decoded", "both"}
    /\ Len(dParts) = 3
    /\ dParts[1].kind = "token" /\ dParts[2].kind = "token"
    /\ dParts[1] # dParts[2]
    /\ dParts[3].kind = "plain"

(* C13, as stated: a delimited substring with an empty payload or with a   *)
(* character outside the payload alphabet stands in the output of          *)
(* decodeNoema as it stood in the text, and a text that is nothing but     *)
(* such a substring has no tokens for hasNoemaTokens.                      *)
MalformedUntouched ==
    \A i \in 1..Len(dParts) :
        dParts[i].kind = "malformed" =>
            /\ dPc \in {"decoded", "both"} =>
                  dOut = decodeNoema(TextOf(SubSeq(dParts, 1, i - 1)))
                           \o dParts[i].val
                           \o decodeNoema(TextOf(SubSeq(dParts, i + 1, Len(dParts))))
            /\ (dPc \in {"has", "both"} /\ Len(dParts) = 1) => ~dHas

(* C13, amended: such a substring is no token: it is never matched itself, *)
(* a text of plain characters and such substrings has no tokens for        *)
(* hasNoemaTokens and is returned unchanged by decodeNoema, and in any     *)
(* text the substring stands in the output as it stood in the text unless  *)
(* a valid token overlaps it (one that ends at its opening delimiter or    *)
(* begins at its closing delimiter).                                       *)
MalformedNotDecoded ==
    /\ \A i \in 1..Len(dParts) :
          dParts[i].kind = "malformed" =>
              LET first == Len(TextOf(SubSeq(dParts, 1, i - 1))) + 1
                  last == first + Len(dParts[i].val) - 1
              IN  /\ MatchAt(dText, first) = 0
                  /\ ( /\ dPc \in {"decoded", "both"}
                       /\ \A m \in MatchesFrom(dText, 0) :
                              m.last < first \/ m.first > last )
                     => dOut = decodeNoema(TextOf(SubSeq(dParts, 1, i - 1)))
                                 \o dParts[i].val
                                 \o decodeNoema(TextOf(SubSeq(dParts, i + 1,
                                                              Len(dParts))))
    /\ (\A i \in 1..Len(dParts) : dParts[i].kind \in {"plain", "malformed"}) =>
          /\ dPc \in {"has", "both"} => ~dHas
          /\ dPc \in {"decoded", "both"} => dOut = dText

(* next to a token that has been decoded, a delimited substring that is no *)
(* token stands in the output as it stood in the text                      *)
MalformedNotDecodedWitness ==
    /\ dPc = "both"
    /\ dHas
    /\ Len(dParts) = 3
    /\ dParts[1] = TokenOf(<<65>>)
    /\ dParts[2].kind = "malformed"
    /\ dParts[3].kind = "malformed"
    /\ dParts[2] # dParts[3]
    /\ dOut = <<65>> \o dParts[2].val \o dParts[3].val

(* C14: decodeNoema works in one pass from the left: after a run of plain  *)
(* characters and tokens that ends in a token, the output is what the run  *)
(* stands for followed by the decoding of the rest of the text alone; the  *)
(* text a token decodes to is not scanned again (the token of a token text *)
(* gives that token text), and the closing delimiter of a token is not     *)
(* used again as the opening delimiter of the next.                        *)
SinglePassLeftmost ==
    dPc \in {"decoded", "both"} =>
        \A i \in 1..Len(dParts) :
            ( /\ dParts[i].kind = "token"
              /\ \A j \in 1..i : dParts[j].kind \in {"plain", "token"} )
            => /\ dOut = Decoded(SubSeq(dParts, 1, i))
                           \o decodeNoema(TextOf(SubSeq(dParts, i + 1, Len(dParts))))
               /\ Cardinality({m \in MatchesFrom(dText, 0) :
                                  m.last <= Len(TextOf(SubSeq(dParts, 1, i)))})
                     = Cardinality({j \in 1..i : dParts[j].kind = "token"})

(* the token of a token text, then a token whose closing delimiter could   *)
(* open the text that follows, have been decoded: the output still holds a *)
(* token                                                                   *)
SinglePassLeftmostWitness ==
    /\ dPc \in {"decoded", "both"}
    /\ Len(dParts) = 3
    /\ dParts[1] = TokenOf(EncodeAsToken(<<65>>))
    /\ dParts[2] = TokenOf(<<65>>)
    /\ dParts[3].kind = "tail"
    /\ dOut = EncodeAsToken(<<65>>) \o <<65>> \o dParts[3].val

(* C15: whatever calls were made before and wherever they left the regex,  *)
(* hasNoemaTokens(t) is true exactly when t contains a token and           *)
(* decodeNoema(t) is the decoding of t from its start.                     *)
Stateless ==
    /\ dPc \in {"has", "both"} =>
          dHas = (\E i \in 1..Len(dText) : MatchAt(dText, i) > 0)
    /\ dPc \in {"decoded", "both"} => dOut = decodeNoema(dText)

(* a call has found the regex left in the middle by an earlier call, on a  *)
(* text whose token stands before that place                               *)
StatelessWitness ==
    /\ dStale
    /\ dPc \in {"has", "decoded"}
    /\ Len(dParts) >= 2
    /\ dParts[1].kind = "token"
    /\ dPc = "has" => dHas

(* C16: a provider with subscriptions configured is shown by poll() only   *)
(* requests whose from is in its subscriptions.                            *)
PollWithinSubscriptions ==
    \A p \in Providers :
        config.subscriptions[p].configured =>
            \A q \in pv[p].polled.requests :
                q.from \in config.subscriptions[p].ids

(* C17: when the proxy rejects a submitted response, the failure that      *)
(* respond() reports names the request as not found.                       *)
RespondFailureNamesNotFound ==
    \A p \in Providers :
        (pv[p].n > 0 /\ ~pv[p].result.success) =>
            pv[p].result.error \in {"REQUEST_NOT_FOUND", "not found"}

(* C18: a request() whose POST was answered non-OK has returned a failure  *)
(* with the error_code of the answer's body, INTERNAL_ERROR when the body  *)
(* has none or is not JSON; it has not slept and has made no result fetch: *)
(* the POST is the only fetch it made, and the request is not in the       *)
(* ledger on its account.                                                  *)
EnvelopeErrorReturned ==
    \A c \in Requesters :
        (rq[c].pc # "idle" /\ ~rq[c].post.ok) =>
            /\ rq[c].pc = "done"
            /\ ~rq[c].result.success
            /\ rq[c].result.request_id = rq[c].requestId
            /\ rq[c].result.error_code =
                  IF rq[c].post.json /\ rq[c].post.body.error_code # "none"
                  THEN rq[c].post.body.error_code
                  ELSE "INTERNAL_ERROR"
            /\ rq[c].call.method = "POST"
            /\ rq[c].call.url = FetchUrl(RequestPath)
            /\ rq[c].resp = NoResponse
            /\ \A e \in ledger : e.rid = rq[c].requestId => e.from # c

(* a POST was answered 502 with a body that is not JSON, and request() has *)
(* returned INTERNAL_ERROR                                                 *)
EnvelopeErrorReturnedWitness ==
    \E c \in Requesters :
        /\ rq[c].pc = "done"
        /\ rq[c].post.status = 502
        /\ rq[c].result.error_code = "INTERNAL_ERROR"
        /\ rq[c].requestId \notin LedgerIds

(* the state part of C19: one entry per request_id, and the answer a       *)
(* request() returned from is the answer a result fetch gets now           *)
OneOutcomeState ==
    /\ \A e, f \in ledger : e.rid = f.rid => e = f
    /\ \A c \in Requesters :
          rq[c].resp.ok => ResultAnswer(rq[c].requestId) = rq[c].resp

(* the step part of C19: an entry stays in the ledger, and once it is      *)
(* fulfilled, failed or expired it stays as it is                          *)
OneOutcomeStep ==
    \A e \in ledger :
        \E f \in ledger' :
            /\ f.rid = e.rid
            /\ e.status # "pending" => f = e

(* C19: the status of a request only goes from pending to fulfilled,       *)
(* failed or expired, and then neither the status nor the outcome changes: *)
(* every result fetch for the request_id reports the same outcome.         *)
OneOutcome == []OneOutcomeState /\ [][OneOutcomeStep]_vars

(* one request is fulfilled and its requester has returned, another has    *)
(* expired, and a response submitted for each of them later was rejected   *)
OneOutcomeWitness ==
    \E e, f \in ledger :
        /\ e.status = "fulfilled" /\ f.status = "expired"
        /\ rq[e.from].pc = "done" /\ rq[e.from].result.success
        /\ \E p \in Providers :
              pv[p].requestId = f.rid /\ ~pv[p].result.success

(* the deadline of a request has passed and no response was stored *)
DeadlinePassed(e) == e.status \in {"pending", "expired"} /\ now >= e.deadline

(* C20: once the deadline of a request has passed without a response, the  *)
(* request is never fulfilled or failed by a response, every response      *)
(* submitted for it is answered REQUEST_NOT_FOUND and respond() fails, and *)
(* every result fetch the proxy answers reports TIMEOUT.                   *)
NoLateSuccessStep ==
    \A e \in ledger :
        DeadlinePassed(e) =>
            /\ \E f \in ledger' :
                  /\ f.rid = e.rid
                  /\ f.status \in {"pending", "expired"}
                  /\ f.submitted = NoOutput
            /\ \A p \in Providers :
                  (pv'[p].n # pv[p].n /\ pv'[p].requestId = e.rid) =>
                      /\ ~pv'[p].resp.ok
                      /\ pv'[p].resp.body.error_code = "REQUEST_NOT_FOUND"
                      /\ ~pv'[p].result.success
            /\ \A c \in Requesters :
                  (rq[c].pc = "fetch" /\ rq'[c].pc # "fetch"
                        /\ rq[c].requestId = e.rid /\ faults' = faults) =>
                      /\ rq'[c].resp = ResultError("TIMEOUT")
                      /\ ~rq'[c].result.success
                      /\ rq'[c].result.error_code = "TIMEOUT"

NoLateSuccess == [][NoLateSuccessStep]_vars

(* a request expired; its requester fetched the result and was told        *)
(* TIMEOUT, and a provider that had polled it in time submitted a response *)
(* after the deadline and was told REQUEST_NOT_FOUND                       *)
NoLateSuccessWitness ==
    \E e \in ledger :
        /\ e.status = "expired"
        /\ rq[e.from].resp = ResultError("TIMEOUT")
        /\ rq[e.from].result.error_code = "TIMEOUT"
        /\ \E p \in Providers :
              /\ pv[p].requestId = e.rid
              /\ pv[p].resp.status = 404
              /\ pv[p].resp.body.error_code = "REQUEST_NOT_FOUND"

(* the tools the README's table gives a role *)
RoleTools(role) ==
    CASE role = "requester" -> {"noema_request"}
      [] role = "provider" -> {"noema_poll", "noema_respond"}
      [] role = "both" -> {"noema_request", "noema_poll", "noema_respond"}
      [] OTHER -> {}

RegisteredAt(kind) == {i \in 1..Len(registered) : registered[i].kind = kind}

(* C21: the tools created for a configuration are exactly the tools of its *)
(* role, each once, and they all hold the one client that was constructed  *)
(* for them and the configured role.                                       *)
ToolsByRole ==
    RegisteredAt("hook") # {} =>
        LET made == {registered[i].tool : i \in RegisteredAt("tool")}
        IN  /\ {t.name : t \in made} = RoleTools(pluginConfig.role.val)
            /\ Cardinality(RegisteredAt("tool"))
                  = Cardinality(RoleTools(pluginConfig.role.val))
            /\ Len(clients) = 1
            /\ \A t \in made :
                  /\ t.client = 1
                  /\ t.role = pluginConfig.role.val
            /\ clients[1].proxyUrl
                  = StripTrailingSlashes(pluginConfig.proxyUrl.val)

(* role both: the three tools are registered, noema_poll has returned and  *)
(* noema_request is waiting, both through the one client                   *)
ToolsByRoleWitness ==
    /\ pluginConfig.role.val = "both"
    /\ Cardinality(RegisteredAt("tool")) = 3
    /\ exec["r1"].pc = "running"
    /\ exec["r1"].tool.client = exec["p1"].tool.client
    /\ exec["p1"].result.success = "true"
    /\ exec["p1"].result.pending_count = 1

(* C22: the content of a message_sending event that is a string goes out   *)
(* as decodeNoema of it, whether the handler returns it or returns         *)
(* nothing; the handler returns nothing for an empty string, for a string  *)
(* without a token and for a content that is no string, and what it        *)
(* returns never cancels the message.                                      *)
DecodedAtOutput ==
    (dPc = "sent" /\ HookRegistered) =>
        /\ msg.kind = "string" =>
              /\ (IF msg.returned THEN dOut ELSE dText) = decodeNoema(dText)
              /\ msg.returned <=> (dText # <<>> /\ hasNoemaTokens(dText))
        /\ msg.kind # "string" => ~msg.returned
        /\ ~msg.cancel

(* a message with a token was sent when another caller of hasNoemaTokens   *)
(* had left lastIndex behind, and it went out decoded                      *)
DecodedAtOutputWitness ==
    /\ dPc = "sent"
    /\ msg.kind = "string"
    /\ msg.returned
    /\ dStale
    /\ dOut # dText
    /\ Len(dParts) = 2

(* C23: register() with no configuration, without a proxyUrl or a token,   *)
(* or with a role that is none of the three registers no tool and no       *)
(* hook; with a complete configuration it registers the tools of the role  *)
(* and after them the message_sending hook, once.                          *)
RegistersAllOrNothing ==
    LET cfg == pluginConfig
        bad == \/ ~cfg.present
               \/ ~cfg.proxyUrl.defined \/ cfg.proxyUrl.val = <<>>
               \/ ~cfg.token.defined \/ cfg.token.val = <<>>
               \/ ~cfg.role.defined
               \/ cfg.role.val \notin {"requester", "provider", "both"}
    IN  registered # <<>> =>
            IF bad
            THEN /\ RegisteredAt("tool") = {}
                 /\ RegisteredAt("hook") = {}
                 /\ tools = {}
                 /\ clients = <<>>
            ELSE LET n == Cardinality(RoleTools(cfg.role.val))
                 IN  /\ RegisteredAt("tool") = 1..n
                     /\ {registered[i].name : i \in 1..n} = RoleTools(cfg.role.val)
                     /\ RegisteredAt("hook") = {n + 1}
                     /\ registered[n + 1].name = "message_sending"

(* register() has run on a configuration whose token is the empty string *)
RegistersAllOrNothingWitness ==
    /\ pluginConfig.present
    /\ pluginConfig.token = Some(<<>>)
    /\ registered = <<Logged("not activated")>>

(* the state part of C24 *)
OwnResultState ==
    \A c \in Requesters :
        /\ rq[c].call.method = "GET" =>
              rq[c].call.url = client.proxyUrl
                                  \o <<"/", "r", "e", "s", "u", "l", "t", "/">>
                                  \o rq[c].requestId
        /\ rq[c].pc = "done" => rq[c].result.request_id = rq[c].requestId
        /\ rq[c].pc = "fetch" => ENABLED RequestFetchResult(c)

(* the step part of C24: a step of one call leaves the other call as it    *)
(* is, and a call whose result fetch is answered with a result returns it  *)
OwnResultStep ==
    \A c \in Requesters :
        rq'[c] # rq[c] =>
            /\ \A d \in Requesters \ {c} : rq'[d] = rq[d]
            /\ (rq[c].pc = "fetch" /\ rq'[c].resp.ok
                    /\ rq'[c].resp.body.status \in {"success", "error"}) =>
                  /\ rq'[c].pc = "done"
                  /\ rq'[c].resp = ResultAnswer(rq[c].requestId)

(* C24: each of two request() calls on one client fetches only the result  *)
(* of its own request_id and returns a result with that request_id; no     *)
(* step of one call changes the other, a call's result fetch can always be *)
(* made, and the call returns at the first fetch answered with its result, *)
(* whatever the other call is doing.                                       *)
OwnResult == []OwnResultState /\ [][OwnResultStep]_vars

(* the first call has returned its output while the second, with another   *)
(* request_id, is still asleep                                             *)
OwnResultWitness ==
    /\ rq["r1"].pc = "done"
    /\ rq["r1"].result.success
    /\ rq["r2"].pc = "sleeping"
    /\ rq["r2"].requestId # rq["r1"].requestId
    /\ rq["r2"].requestId \in LedgerIds

(* C25: a tool called under a role that does not allow it returns an error *)
(* with its requirement and the configured role; noema_respond under an    *)
(* allowed role with no or an empty request_id returns "request_id is      *)
(* required"; in both cases no client call is made, and the role is        *)
(* checked before the request_id.                                          *)
RefusedSendsNothing ==
    \A a \in {"r1", "p1"} :
        (exec[a].pc # "running" /\ exec'[a] # exec[a]) =>
            LET name == exec'[a].tool.name
                role == exec'[a].tool.role
                rid == exec'[a].params.request_id
                allowed == IF name = "noema_request"
                           THEN role \in {"requester", "both"}
                           ELSE role \in {"provider", "both"}
                noId == ~rid.defined \/ rid.val = <<>>
            IN  /\ ~allowed =>
                      /\ exec'[a].pc = "returned"
                      /\ exec'[a].result.error = RequiresText(name)
                      /\ exec'[a].result.configured_role = role
                      /\ UNCHANGED <<rq, pv, ledger, faults>>
                /\ (allowed /\ name = "noema_respond" /\ noId) =>
                      /\ exec'[a].pc = "returned"
                      /\ exec'[a].result.error = "request_id is required"
                      /\ exec'[a].result.configured_role = "none"
                      /\ UNCHANGED <<rq, pv, ledger, faults>>
                /\ (allowed /\ ~(name = "noema_respond" /\ noId)) =>
                      exec'[a].pc = "running"

RefusedCallsSendNothing == [][RefusedSendsNothing]_vars

(* noema_request made by hand with role provider was refused, naming the   *)
(* role; noema_respond of the same plugin was refused for an empty         *)
(* request_id                                                              *)
RefusedCallsSendNothingWitness ==
    /\ exec["r1"].pc = "returned"
    /\ exec["r1"].result.configured_role = "provider"
    /\ exec["p1"].pc = "returned"
    /\ exec["p1"].params.request_id = Some(<<>>)
    /\ exec["p1"].result = RequestIdRequired

=============================================================================
